---- MODULE Spec2Model ----
(***************************************************************************)
(* Model of the CNOPS -> RxNorm mapping resolver                           *)
(* (src/src/mapper/core_mapper.py, src/src/mapper/api_client.py).          *)
(*                                                                         *)
(* A Python str is a sequence of tokens; ingredient, product and form      *)
(* names are sequences of one-character tokens, so that upper(), strip(),  *)
(* the substring test and the similarity ratio are computed on characters. *)
(* None is the one-token sequence <<"None">>, which no str equals.         *)
(* A confidence score is an integer number of 1/Scale units, so that the   *)
(* products with the penalty factors (given in hundredths) are exact.      *)
(***************************************************************************)
EXTENDS Integers, Sequences, FiniteSets, TLC

VARIABLES config, api, df, idx, pc, cnops_record, result, calls, validated,
          exc, results, summary, outcomes,
          retries, network, request, attempt, cpc, events, response, answer

\* the variables of one terminology request (RxNormAPIClient)
client == <<retries, network, request, attempt, cpc, events, response, answer>>

vars == <<config, api, df, idx, pc, cnops_record, result, calls, validated,
          exc, results, summary, outcomes, client>>

(***************************************************************************)
(* Bounds of the model.                                                    *)
(***************************************************************************)
MaxRows == 2
MaxCands == 6
MaxRetries == 3

(***************************************************************************)
(* Python values.                                                          *)
(***************************************************************************)
None == <<"None">>

Truthy(s) == s # None /\ s # <<>>

Scale == 1000 * 100

Score09 == (9 * Scale) \div 10
Score08 == (8 * Scale) \div 10
Score06 == (6 * Scale) \div 10
Bonus01 == Scale \div 10

FuzzyThreshold == 80
MaxEntries == 5
StrengthPoints == 50
FormPoints == 30

(***************************************************************************)
(* str.upper(), str.strip(), the `in` substring test.                      *)
(***************************************************************************)
UpperChar(c) ==
  CASE c = "a" -> "A" [] c = "c" -> "C" [] c = "m" -> "M" [] c = "p" -> "P"
    [] c = "g" -> "G" [] c = "t" -> "T" [] c = "b" -> "B"
    [] OTHER -> c

Upper(s) == [i \in 1..Len(s) |-> UpperChar(s[i])]

RECURSIVE LStrip(_)
LStrip(s) == IF s # <<>> /\ Head(s) = " " THEN LStrip(Tail(s)) ELSE s

RECURSIVE RStrip(_)
RStrip(s) ==
  IF s # <<>> /\ s[Len(s)] = " " THEN RStrip(SubSeq(s, 1, Len(s) - 1)) ELSE s

Strip(s) == RStrip(LStrip(s))

Contains(t, s) ==
  \E i \in 1..(Len(s) - Len(t) + 1) : SubSeq(s, i, i + Len(t) - 1) = t

HasSlash(s) == \E i \in 1..Len(s) : s[i] = "/"

RECURSIVE Digits(_)
Digits(n) ==
  LET d == <<"0", "1", "2", "3", "4", "5", "6", "7", "8", "9">>[(n % 10) + 1]
  IN IF n < 10 THEN <<d>> ELSE Append(Digits(n \div 10), d)

(***************************************************************************)
(* fuzz.ratio: 100 * 2M/T rounded to the nearest integer (ties to even),   *)
(* M the size of the matching blocks of difflib.SequenceMatcher: the       *)
(* longest common block, leftmost in a then in b, then recursively the     *)
(* parts to its left and to its right.  T = len(a) + len(b).               *)
(***************************************************************************)
Max(S) == CHOOSE x \in S : \A y \in S : y <= x

Min(S) == CHOOSE x \in S : \A y \in S : x <= y

Blocks(a, b) ==
  {<<i, j, k>> \in (1..Len(a)) \X (1..Len(b)) \X (1..Len(a)) :
      /\ i + k - 1 <= Len(a)
      /\ j + k - 1 <= Len(b)
      /\ SubSeq(a, i, i + k - 1) = SubSeq(b, j, j + k - 1)}

LongestMatch(a, b) ==
  LET B == Blocks(a, b)
      k == Max({blk[3] : blk \in B})
      i == Min({blk[1] : blk \in {x \in B : x[3] = k}})
      j == Min({blk[2] : blk \in {x \in B : x[3] = k /\ x[1] = i}})
  IN <<i, j, k>>

RECURSIVE MatchSize(_, _)
MatchSize(a, b) ==
  IF Blocks(a, b) = {} THEN 0
  ELSE LET m == LongestMatch(a, b)
       IN m[3]
          + MatchSize(SubSeq(a, 1, m[1] - 1), SubSeq(b, 1, m[2] - 1))
          + MatchSize(SubSeq(a, m[1] + m[3], Len(a)),
                      SubSeq(b, m[2] + m[3], Len(b)))

RoundHalfEven(num, den) ==
  LET q == num \div den
      r == num % den
  IN IF 2 * r < den THEN q
     ELSE IF 2 * r > den THEN q + 1
     ELSE IF q % 2 = 0 THEN q ELSE q + 1

Ratio(a, b) ==
  IF a = None \/ b = None THEN 0
  ELSE IF a = b THEN 100
  ELSE IF Len(a) = 0 \/ Len(b) = 0 THEN 0
  ELSE RoundHalfEven(200 * MatchSize(a, b), Len(a) + Len(b))

(***************************************************************************)
(* dict.get(key, default) on a record read from the table or from JSON.    *)
(***************************************************************************)
Get(d, key, default) == IF key \in DOMAIN d THEN d[key] ELSE default

(***************************************************************************)
(* Configuration (config/mapping_config.yaml): penalty factors in          *)
(* hundredths, the similarity threshold on the 0..100 scale, the tier      *)
(* thresholds in score units.                                              *)
(***************************************************************************)
Configs ==
  { [name_similarity_threshold |-> 70, form_mismatch_penalty |-> 80,
     combination_drug_penalty |-> 70,
     high |-> Score08, medium |-> (5 * Scale) \div 10,
     low |-> (3 * Scale) \div 10],
    [name_similarity_threshold |-> 90, form_mismatch_penalty |-> 50,
     combination_drug_penalty |-> 50,
     high |-> Score08, medium |-> (5 * Scale) \div 10,
     low |-> (3 * Scale) \div 10] }

(***************************************************************************)
(* Translation dictionaries (data/dictionaries/*.json), abbreviated:       *)
(* PARACETAMOL -> acetaminophen, AMOXICILLINE -> amoxicillin;              *)
(* COMPRIME -> Tablet.                                                     *)
(***************************************************************************)
ingredient_translations ==
  (<<"P", "A">> :> <<"a", "c">>) @@ (<<"A", "M">> :> <<"a", "m">>)

dose_form_translations == (<<"C", "p">> :> <<"T", "a", "b">>)

(***************************************************************************)
(* Input records (rows of the CNOPS table).                                *)
(***************************************************************************)
Records ==
  { [CODE |-> <<"0">>, NOM |-> <<"n">>],
    [CODE |-> <<"1">>, NOM |-> <<"n">>, DCI1 |-> <<>>,
     DOSAGE1 |-> <<"5">>, UNITE_DOSAGE1 |-> <<"g">>, FORME |-> <<"C", "p">>],
    [CODE |-> <<"2">>, NOM |-> <<"n">>, DCI1 |-> <<"P", "a">>,
     DOSAGE1 |-> <<"5">>, UNITE_DOSAGE1 |-> <<"g">>, FORME |-> <<"C", "p">>],
    [CODE |-> <<"3">>, NOM |-> <<"n">>, DCI1 |-> <<"A", "m">>,
     DOSAGE1 |-> <<>>, UNITE_DOSAGE1 |-> <<>>, FORME |-> <<>>],
    [CODE |-> <<"4">>, NOM |-> <<"n">>, DCI1 |-> <<"P", "/", "C">>,
     DOSAGE1 |-> <<"5">>, UNITE_DOSAGE1 |-> <<"g">>, FORME |-> <<"G", "e">>] }

Tables == UNION {[1..n -> Records] : n \in 0..MaxRows}

(***************************************************************************)
(* The remote terminology service, as one batch run sees it: whether its   *)
(* requests succeed, the names its exact search knows, the candidate list  *)
(* of its approximate search and the concept groups of its related-concept *)
(* query.  JSON objects are records; a key the service omits is a missing  *)
(* field.                                                                  *)
(***************************************************************************)
RxnormIds ==
  (<<"P", "a">> :> <<"1">>) @@ (<<"A", "m">> :> <<"2">>)
  @@ (<<"P", "/", "C">> :> <<"3">>)
  @@ (<<"a", "c">> :> <<"4">>) @@ (<<"a", "m">> :> <<"5">>)

RawNames == {<<"P", "a">>, <<"A", "m">>, <<"P", "/", "C">>}

TranslatedNames == {<<"a", "c">>, <<"a", "m">>}

KnownSets == {{}, RawNames, TranslatedNames, {<<"A", "m">>, <<"a", "c">>}}

TopHit == [rxcui |-> <<"7">>, term |-> <<"p", "a">>, score |-> 80]

TopMiss == [rxcui |-> <<"7">>, term |-> <<"p", "a">>, score |-> 79]

TopNoId == [term |-> <<"p", "/", "c">>, score |-> 100]

Filler == [rxcui |-> <<"8">>, term |-> <<"p", "b">>, score |-> 60]

CandidateLists ==
  {<<>>, <<TopMiss, Filler>>, <<TopNoId, Filler>>}
  \cup {[i \in 1..n |-> IF i = 1 THEN TopHit ELSE Filler] : n \in 1..MaxCands}

ConceptFull ==
  [rxcui |-> <<"2", "1">>, tty |-> <<"S", "C", "D">>,
   name |-> <<"a", "c", " ", "5", " ", "G", " ", "T", "a", "b">>]

ConceptPlain ==
  [rxcui |-> <<"2", "2">>, tty |-> <<"S", "B", "D">>,
   name |-> <<"a", "c", " ", "B">>, synonym |-> <<"b">>]

ConceptOther ==
  [rxcui |-> <<"2", "3">>, tty |-> <<"S", "C", "D">>,
   name |-> <<"a", "c", " ", "C">>]

ConceptNoId ==
  [tty |-> <<"S", "C", "D">>,
   name |-> <<"a", "c", " ", "5", " ", "G", " ", "T", "a", "b">>]

ConceptNoName == [rxcui |-> <<"2", "5">>, tty |-> <<"S", "C", "D">>]

ConceptGroupLists ==
  { <<>>,
    <<[tty |-> <<"S", "B", "D">>]>>,
    <<[tty |-> <<"S", "C", "D">>, conceptProperties |-> <<ConceptFull>>]>>,
    <<[tty |-> <<"S", "B", "D">>, conceptProperties |-> <<ConceptPlain>>],
      [tty |-> <<"S", "C", "D">>, conceptProperties |-> <<ConceptFull>>]>>,
    <<[tty |-> <<"S", "B", "D">>, conceptProperties |-> <<ConceptPlain>>],
      [tty |-> <<"S", "C", "D">>, conceptProperties |-> <<ConceptOther>>]>>,
    <<[tty |-> <<"S", "C", "D">>, conceptProperties |-> <<ConceptNoId>>]>>,
    <<[tty |-> <<"S", "C", "D">>,
       conceptProperties |-> <<ConceptFull, ConceptNoName>>]>> }

Unreachable ==
  [reachable |-> FALSE, known |-> {}, candidate |-> <<>>,
   conceptGroup |-> <<>>]

Services ==
  {Unreachable}
  \cup [reachable : {TRUE}, known : KnownSets, candidate : CandidateLists,
        conceptGroup : ConceptGroupLists]

(***************************************************************************)
(* RxNormAPIClient.  _make_request returns the JSON payload, or no payload *)
(* once every attempt has failed.                                          *)
(***************************************************************************)
NoPayload == [ok |-> FALSE]

Payload(json) == [ok |-> TRUE, json |-> json]

_make_request(service, endpoint, param) ==
  IF ~service.reachable THEN NoPayload
  ELSE CASE endpoint = "rxcui.json" ->
              Payload([idGroup |->
                 IF param \in service.known
                 THEN [name |-> param, rxnormId |-> <<RxnormIds[param]>>]
                 ELSE [name |-> param]])
         [] endpoint = "approximateTerm.json" ->
              Payload([approximateGroup |->
                 IF service.candidate = <<>>
                 THEN [inputTerm |-> param]
                 ELSE [inputTerm |-> param,
                       candidate |-> service.candidate]])
         [] OTHER ->
              Payload([relatedGroup |->
                 IF service.conceptGroup = <<>>
                 THEN [rxcui |-> param]
                 ELSE [rxcui |-> param,
                       conceptGroup |-> service.conceptGroup]])

search_by_name(service, name) ==
  LET r == _make_request(service, "rxcui.json", name)
      ids == IF r.ok THEN Get(Get(r.json, "idGroup", <<>>), "rxnormId", <<>>)
             ELSE <<>>
  IN IF ids # <<>> THEN ids[1] ELSE None

approximate_search(service, term, max_entries) ==
  LET r == _make_request(service, "approximateTerm.json", term)
      cs == IF r.ok
            THEN Get(Get(r.json, "approximateGroup", <<>>), "candidate", <<>>)
            ELSE <<>>
  IN [i \in 1..Len(cs) |->
        [rxcui |-> Get(cs[i], "rxcui", None),
         term |-> Get(cs[i], "term", None),
         score |-> Get(cs[i], "score", 0)]]

RECURSIVE Flatten(_)
Flatten(ss) == IF ss = <<>> THEN <<>> ELSE Head(ss) \o Flatten(Tail(ss))

get_related_concepts(service, rxcui, tty) ==
  LET r == _make_request(service, "related.json", rxcui)
      gs == IF r.ok /\ DOMAIN Get(r.json, "relatedGroup", <<>>) # {}
            THEN Get(r.json.relatedGroup, "conceptGroup", <<>>)
            ELSE <<>>
      props == [i \in 1..Len(gs) |-> Get(gs[i], "conceptProperties", <<>>)]
      cs == Flatten(props)
  IN [i \in 1..Len(cs) |->
        [rxcui |-> Get(cs[i], "rxcui", None),
         name |-> Get(cs[i], "name", None),
         tty |-> Get(cs[i], "tty", None),
         synonym |-> Get(cs[i], "synonym", None)]]

(***************************************************************************)
(* MappingResult and the resolver's helpers.                               *)
(***************************************************************************)
MappingResult(code, name, dci) ==
  [cnops_code |-> code, original_name |-> name, dci1 |-> dci,
   rxcui |-> None, rxnorm_name |-> None, confidence_score |-> 0,
   mapping_method |-> "none", validation_notes |-> <<>>,
   alternative_matches |-> <<>>]

Call(op, arg, ret) == [op |-> op, arg |-> arg, ret |-> ret]

\* a call of approximate_search, with the max_entries keyword it was given
SearchCall(term, max_entries, ret) ==
  [op |-> "approximate_search", arg |-> term, max_entries |-> max_entries,
   ret |-> ret]

ProductScore(product, target_strength, target_form) ==
  LET product_name == Upper(product.name)
      translated_form == Get(dose_form_translations, target_form, target_form)
  IN (IF Strip(target_strength) # <<>>
         /\ Contains(Upper(target_strength), product_name)
      THEN StrengthPoints ELSE 0)
     + (IF Contains(Upper(translated_form), product_name)
        THEN FormPoints ELSE 0)

\* product.get('name', '').upper() on a product whose name is None
NameRaises(products) == \E i \in 1..Len(products) : products[i].name = None

\* scored_products.sort(reverse=True) compares the dicts of two tuples with
\* equal scores; dicts that differ have no order
SortRaises(products, scores) ==
  \E i, j \in 1..Len(products) :
     i < j /\ scores[i] = scores[j] /\ products[i] # products[j]

FirstIndex(S) == Min(S)

_find_best_product_match(products, target_strength, target_form) ==
  IF products = <<>> THEN [exc |-> "", found |-> FALSE]
  ELSE IF NameRaises(products) THEN [exc |-> "AttributeError", found |-> FALSE]
  ELSE
    LET scores == [i \in 1..Len(products) |->
                     ProductScore(products[i], target_strength, target_form)]
        top == Max({scores[i] : i \in 1..Len(products)})
        best == FirstIndex({i \in 1..Len(products) : scores[i] = top})
        scd == {i \in 1..Len(products) : products[i].tty = <<"S", "C", "D">>}
    IN IF SortRaises(products, scores)
       THEN [exc |-> "TypeError", found |-> FALSE]
       ELSE IF top > 0
       THEN [exc |-> "", found |-> TRUE, product |-> products[best]]
       ELSE IF scd # {}
       THEN [exc |-> "", found |-> TRUE, product |-> products[FirstIndex(scd)]]
       ELSE [exc |-> "", found |-> TRUE, product |-> products[1]]

\* enhancement that takes the product's identifier but keeps the old name
_enhance_with_products_KeepName(service, res, record) ==
  IF ~Truthy(res.rxcui) THEN [exc |-> "", result |-> res, calls |-> <<>>]
  ELSE
    LET products == get_related_concepts(service, res.rxcui, "SCD+SBD")
        made == <<Call("get_related_concepts", res.rxcui, products)>>
        target_strength == Get(record, "DOSAGE1", <<>>) \o <<" ">>
                           \o Get(record, "UNITE_DOSAGE1", <<>>)
        target_form == Get(record, "FORME", <<>>)
        m == _find_best_product_match(products, target_strength, target_form)
    IN IF products = <<>> THEN [exc |-> "", result |-> res, calls |-> made]
       ELSE IF m.exc # "" THEN [exc |-> m.exc, result |-> res, calls |-> made]
       ELSE IF ~m.found THEN [exc |-> "", result |-> res, calls |-> made]
       ELSE [exc |-> "", calls |-> made,
             result |->
               [res EXCEPT
                  !.rxcui = m.product.rxcui,
                  !.confidence_score = @ + Bonus01,
                  !.validation_notes =
                     Append(@, <<"Enhanced with specific product">>)]]

\* enhancement that queries the related concepts of an unmatched result too
_enhance_with_products_NoGuard(service, res, record) ==
  LET products == get_related_concepts(service, res.rxcui, "SCD+SBD")
      made == <<Call("get_related_concepts", res.rxcui, products)>>
      target_strength == Get(record, "DOSAGE1", <<>>) \o <<" ">>
                         \o Get(record, "UNITE_DOSAGE1", <<>>)
      target_form == Get(record, "FORME", <<>>)
      m == _find_best_product_match(products, target_strength, target_form)
  IN IF products = <<>> THEN [exc |-> "", result |-> res, calls |-> made]
     ELSE IF m.exc # "" THEN [exc |-> m.exc, result |-> res, calls |-> made]
     ELSE IF ~m.found THEN [exc |-> "", result |-> res, calls |-> made]
     ELSE [exc |-> "", calls |-> made,
           result |->
             [res EXCEPT
                !.rxcui = m.product.rxcui,
                !.rxnorm_name = m.product.name,
                !.confidence_score = @ + Bonus01,
                !.validation_notes =
                   Append(@, <<"Enhanced with specific product">>)]]

\* returns the result, the calls made and the exception raised, if any
_enhance_with_products(service, res, record) ==
  IF ~Truthy(res.rxcui) THEN [exc |-> "", result |-> res, calls |-> <<>>]
  ELSE
    LET products == get_related_concepts(service, res.rxcui, "SCD+SBD")
        made == <<Call("get_related_concepts", res.rxcui, products)>>
        target_strength == Get(record, "DOSAGE1", <<>>) \o <<" ">>
                           \o Get(record, "UNITE_DOSAGE1", <<>>)
        target_form == Get(record, "FORME", <<>>)
        m == _find_best_product_match(products, target_strength, target_form)
    IN IF products = <<>> THEN [exc |-> "", result |-> res, calls |-> made]
       ELSE IF m.exc # "" THEN [exc |-> m.exc, result |-> res, calls |-> made]
       ELSE IF ~m.found THEN [exc |-> "", result |-> res, calls |-> made]
       ELSE [exc |-> "", calls |-> made,
             result |->
               [res EXCEPT
                  !.rxcui = m.product.rxcui,
                  !.rxnorm_name = m.product.name,
                  !.confidence_score = @ + Bonus01,
                  !.validation_notes =
                     Append(@, <<"Enhanced with specific product">>)]]

Penalize(score, factor) == (score * factor) \div 100

TierNote(cfg, score) ==
  IF score >= cfg.high THEN <<"HIGH confidence mapping">>
  ELSE IF score >= cfg.medium THEN <<"MEDIUM confidence mapping">>
  ELSE IF score >= cfg.low THEN <<"LOW confidence - review recommended">>
  ELSE <<"VERY LOW confidence - manual review required">>

\* validation that picks the tier from the score it received
_validate_mapping_TierFirst(cfg, res) ==
  IF ~Truthy(res.rxcui)
  THEN [res EXCEPT !.confidence_score = 0,
                   !.validation_notes = Append(@, <<"No RxNorm mapping found">>)]
  ELSE
    LET similarity == Ratio(Upper(res.dci1), Upper(res.rxnorm_name))
        low_sim == /\ Truthy(res.rxnorm_name) /\ Truthy(res.dci1)
                   /\ similarity < cfg.name_similarity_threshold
        r1 == IF low_sim
              THEN [res EXCEPT
                      !.confidence_score =
                         Penalize(@, cfg.form_mismatch_penalty),
                      !.validation_notes =
                         Append(@, <<"Low name similarity: ">>
                                   \o Digits(similarity) \o <<"%">>)]
              ELSE res
        combo == /\ HasSlash(res.dci1)
                 /\ ~HasSlash(IF Truthy(res.rxnorm_name)
                              THEN res.rxnorm_name ELSE <<>>)
        r2 == IF combo
              THEN [r1 EXCEPT
                      !.confidence_score =
                         Penalize(@, cfg.combination_drug_penalty),
                      !.validation_notes =
                         Append(@, <<"Possible combination drug mismatch">>)]
              ELSE r1
    IN [r2 EXCEPT !.validation_notes =
                     Append(@, TierNote(cfg, res.confidence_score))]

\* validation that looks for the separator in the raw ingredient only
_validate_mapping_SlashOnly(cfg, res) ==
  IF ~Truthy(res.rxcui)
  THEN [res EXCEPT !.confidence_score = 0,
                   !.validation_notes = Append(@, <<"No RxNorm mapping found">>)]
  ELSE
    LET similarity == Ratio(Upper(res.dci1), Upper(res.rxnorm_name))
        low_sim == /\ Truthy(res.rxnorm_name) /\ Truthy(res.dci1)
                   /\ similarity < cfg.name_similarity_threshold
        r1 == IF low_sim
              THEN [res EXCEPT
                      !.confidence_score =
                         Penalize(@, cfg.form_mismatch_penalty),
                      !.validation_notes =
                         Append(@, <<"Low name similarity: ">>
                                   \o Digits(similarity) \o <<"%">>)]
              ELSE res
        combo == HasSlash(res.dci1)
        r2 == IF combo
              THEN [r1 EXCEPT
                      !.confidence_score =
                         Penalize(@, cfg.combination_drug_penalty),
                      !.validation_notes =
                         Append(@, <<"Possible combination drug mismatch">>)]
              ELSE r1
    IN [r2 EXCEPT !.validation_notes =
                     Append(@, TierNote(cfg, r2.confidence_score))]

\* validation that takes the combination factor for the similarity penalty
_validate_mapping_WrongFactor(cfg, res) ==
  IF ~Truthy(res.rxcui)
  THEN [res EXCEPT !.confidence_score = 0,
                   !.validation_notes = Append(@, <<"No RxNorm mapping found">>)]
  ELSE
    LET similarity == Ratio(Upper(res.dci1), Upper(res.rxnorm_name))
        low_sim == /\ Truthy(res.rxnorm_name) /\ Truthy(res.dci1)
                   /\ similarity < cfg.name_similarity_threshold
        r1 == IF low_sim
              THEN [res EXCEPT
                      !.confidence_score =
                         Penalize(@, cfg.combination_drug_penalty),
                      !.validation_notes =
                         Append(@, <<"Low name similarity: ">>
                                   \o Digits(similarity) \o <<"%">>)]
              ELSE res
        combo == /\ HasSlash(res.dci1)
                 /\ ~HasSlash(IF Truthy(res.rxnorm_name)
                              THEN res.rxnorm_name ELSE <<>>)
        r2 == IF combo
              THEN [r1 EXCEPT
                      !.confidence_score =
                         Penalize(@, cfg.combination_drug_penalty),
                      !.validation_notes =
                         Append(@, <<"Possible combination drug mismatch">>)]
              ELSE r1
    IN [r2 EXCEPT !.validation_notes =
                     Append(@, TierNote(cfg, r2.confidence_score))]

\* validation that leaves the score of an unmatched result as it is
_validate_mapping_NoReset(cfg, res) ==
  IF ~Truthy(res.rxcui)
  THEN [res EXCEPT !.validation_notes = Append(@, <<"No RxNorm mapping found">>)]
  ELSE [res EXCEPT !.validation_notes =
                      Append(@, TierNote(cfg, res.confidence_score))]

_validate_mapping(cfg, res) ==
  IF ~Truthy(res.rxcui)
  THEN [res EXCEPT !.confidence_score = 0,
                   !.validation_notes = Append(@, <<"No RxNorm mapping found">>)]
  ELSE
    LET similarity == Ratio(Upper(res.dci1), Upper(res.rxnorm_name))
        low_sim == /\ Truthy(res.rxnorm_name) /\ Truthy(res.dci1)
                   /\ similarity < cfg.name_similarity_threshold
        r1 == IF low_sim
              THEN [res EXCEPT
                      !.confidence_score =
                         Penalize(@, cfg.form_mismatch_penalty),
                      !.validation_notes =
                         Append(@, <<"Low name similarity: ">>
                                   \o Digits(similarity) \o <<"%">>)]
              ELSE res
        combo == /\ HasSlash(res.dci1)
                 /\ ~HasSlash(IF Truthy(res.rxnorm_name)
                              THEN res.rxnorm_name ELSE <<>>)
        r2 == IF combo
              THEN [r1 EXCEPT
                      !.confidence_score =
                         Penalize(@, cfg.combination_drug_penalty),
                      !.validation_notes =
                         Append(@, <<"Possible combination drug mismatch">>)]
              ELSE r1
    IN [r2 EXCEPT !.validation_notes =
                     Append(@, TierNote(cfg, r2.confidence_score))]

(***************************************************************************)
(* State machine: process_file iterates the table; map_single_drug runs    *)
(* for the current row from one position (pc) to the next.                 *)
(* calls is the list of terminology calls made for the current record,     *)
(* validated the number of _validate_mapping runs for it, outcomes what    *)
(* each finished map_single_drug call returned or raised.                  *)
(***************************************************************************)
NoSummary == [total |-> 0, mapped |-> 0, high_conf |-> 0, med_conf |-> 0,
              low_conf |-> 0]

Init ==
  /\ config \in Configs
  /\ api \in Services
  /\ df \in Tables
  /\ idx = 0
  /\ pc = "loop"
  /\ cnops_record = [CODE |-> <<>>]
  /\ result = MappingResult(<<>>, <<>>, <<>>)
  /\ calls = <<>>
  /\ validated = 0
  /\ exc = ""
  /\ results = <<>>
  /\ summary = NoSummary
  /\ outcomes = <<>>
  /\ retries = 0
  /\ network = <<>>
  /\ request = [op |-> "search_by_name", arg |-> <<>>]
  /\ attempt = 0
  /\ cpc = "idle"
  /\ events = <<>>
  /\ response = NoPayload
  /\ answer = <<>>

\* Begin with a notes list shared by all results (a mutable default)
Begin_SharedNotes ==
  /\ pc = "loop"
  /\ idx < Len(df)
  /\ LET row == df[idx + 1]
         res == [MappingResult(Get(row, "CODE", <<>>), Get(row, "NOM", <<>>),
                               Get(row, "DCI1", <<>>))
                   EXCEPT !.validation_notes = result.validation_notes]
     IN /\ cnops_record' = row
        /\ IF ~Truthy(res.dci1)
           THEN /\ result' = [res EXCEPT !.validation_notes =
                                Append(@, <<"No DCI1 ingredient specified">>)]
                /\ pc' = "returned"
           ELSE /\ result' = res
                /\ pc' = "strategy1"
  /\ calls' = <<>>
  /\ validated' = 0
  /\ exc' = ""
  /\ UNCHANGED <<config, api, df, idx, results, summary, outcomes, client>>

\* Begin without the empty-ingredient check
Begin_NoPrecondition ==
  /\ pc = "loop"
  /\ idx < Len(df)
  /\ LET row == df[idx + 1]
     IN /\ cnops_record' = row
        /\ result' = MappingResult(Get(row, "CODE", <<>>),
                                   Get(row, "NOM", <<>>),
                                   Get(row, "DCI1", <<>>))
        /\ pc' = "strategy1"
  /\ calls' = <<>>
  /\ validated' = 0
  /\ exc' = ""
  /\ UNCHANGED <<config, api, df, idx, results, summary, outcomes, client>>

\* process_file calls map_single_drug on the next row; map_single_drug builds
\* the result and returns at once when the ingredient is empty
Begin ==
  /\ pc = "loop"
  /\ idx < Len(df)
  /\ LET row == df[idx + 1]
         res == MappingResult(Get(row, "CODE", <<>>), Get(row, "NOM", <<>>),
                              Get(row, "DCI1", <<>>))
     IN /\ cnops_record' = row
        /\ IF ~Truthy(res.dci1)
           THEN /\ result' = [res EXCEPT !.validation_notes =
                                Append(@, <<"No DCI1 ingredient specified">>)]
                /\ pc' = "returned"
           ELSE /\ result' = res
                /\ pc' = "strategy1"
  /\ calls' = <<>>
  /\ validated' = 0
  /\ exc' = ""
  /\ UNCHANGED <<config, api, df, idx, results, summary, outcomes, client>>

\* Strategy 1 that goes on to Strategy 2 after a hit
Strategy1_FallThrough ==
  /\ pc = "strategy1"
  /\ LET rxcui == search_by_name(api, result.dci1)
     IN /\ calls' = Append(calls, Call("search_by_name", result.dci1, rxcui))
        /\ result' = IF Truthy(rxcui)
                     THEN [result EXCEPT
                             !.rxcui = rxcui,
                             !.rxnorm_name = result.dci1,
                             !.mapping_method = "direct_exact",
                             !.confidence_score = Score09]
                     ELSE result
        /\ pc' = "strategy2"
  /\ UNCHANGED <<config, api, df, idx, cnops_record, validated, exc, results,
                 summary, outcomes, client>>

\* Strategy 1 with the base score of Strategy 2
Strategy1_WrongScore ==
  /\ pc = "strategy1"
  /\ LET rxcui == search_by_name(api, result.dci1)
     IN /\ calls' = Append(calls, Call("search_by_name", result.dci1, rxcui))
        /\ IF Truthy(rxcui)
           THEN /\ result' = [result EXCEPT
                                !.rxcui = rxcui,
                                !.rxnorm_name = result.dci1,
                                !.mapping_method = "direct_exact",
                                !.confidence_score = Score08]
                /\ pc' = "enhance"
           ELSE /\ result' = result
                /\ pc' = "strategy2"
  /\ UNCHANGED <<config, api, df, idx, cnops_record, validated, exc, results,
                 summary, outcomes, client>>

\* Strategy 1: direct lookup
Strategy1 ==
  /\ pc = "strategy1"
  /\ LET rxcui == search_by_name(api, result.dci1)
     IN /\ calls' = Append(calls, Call("search_by_name", result.dci1, rxcui))
        /\ IF Truthy(rxcui)
           THEN /\ result' = [result EXCEPT
                                !.rxcui = rxcui,
                                !.rxnorm_name = result.dci1,
                                !.mapping_method = "direct_exact",
                                !.confidence_score = Score09]
                /\ pc' = "enhance"
           ELSE /\ result' = result
                /\ pc' = "strategy2"
  /\ UNCHANGED <<config, api, df, idx, cnops_record, validated, exc, results,
                 summary, outcomes, client>>

\* Strategy 2 that looks the ingredient up without upper-casing it
Strategy2_NoUpper ==
  /\ pc = "strategy2"
  /\ IF result.dci1 \in DOMAIN ingredient_translations
     THEN LET translated == ingredient_translations[result.dci1]
              rxcui == search_by_name(api, translated)
          IN /\ calls' = Append(calls,
                                Call("search_by_name", translated, rxcui))
             /\ IF Truthy(rxcui)
                THEN /\ result' = [result EXCEPT
                          !.rxcui = rxcui,
                          !.rxnorm_name = translated,
                          !.mapping_method = "translated_exact",
                          !.confidence_score = Score08,
                          !.validation_notes =
                             Append(@, <<"Used translation: ">> \o result.dci1
                                       \o <<" -> ">> \o translated)]
                     /\ pc' = "enhance"
                ELSE /\ result' = result
                     /\ pc' = "strategy3"
     ELSE /\ calls' = calls
          /\ result' = result
          /\ pc' = "strategy3"
  /\ UNCHANGED <<config, api, df, idx, cnops_record, validated, exc, results,
                 summary, outcomes, client>>

\* Strategy 2: translation-based lookup
Strategy2 ==
  /\ pc = "strategy2"
  /\ IF Upper(result.dci1) \in DOMAIN ingredient_translations
     THEN LET translated == ingredient_translations[Upper(result.dci1)]
              rxcui == search_by_name(api, translated)
          IN /\ calls' = Append(calls,
                                Call("search_by_name", translated, rxcui))
             /\ IF Truthy(rxcui)
                THEN /\ result' = [result EXCEPT
                          !.rxcui = rxcui,
                          !.rxnorm_name = translated,
                          !.mapping_method = "translated_exact",
                          !.confidence_score = Score08,
                          !.validation_notes =
                             Append(@, <<"Used translation: ">> \o result.dci1
                                       \o <<" -> ">> \o translated)]
                     /\ pc' = "enhance"
                ELSE /\ result' = result
                     /\ pc' = "strategy3"
     ELSE /\ calls' = calls
          /\ result' = result
          /\ pc' = "strategy3"
  /\ UNCHANGED <<config, api, df, idx, cnops_record, validated, exc, results,
                 summary, outcomes, client>>

\* Strategy 3 that accepts only scores strictly above the threshold
Strategy3_Strict ==
  /\ pc = "strategy3"
  /\ LET matches == approximate_search(api, result.dci1, MaxEntries)
     IN /\ calls' = Append(calls,
                           SearchCall(result.dci1, MaxEntries, matches))
        /\ IF matches # <<>> /\ matches[1].score > FuzzyThreshold
           THEN /\ result' = [result EXCEPT
                     !.rxcui = matches[1].rxcui,
                     !.rxnorm_name = matches[1].term,
                     !.mapping_method = "fuzzy_high",
                     !.confidence_score = Score06,
                     !.alternative_matches = Tail(matches),
                     !.validation_notes =
                        Append(@, <<"Fuzzy match score: ">>
                                  \o Digits(matches[1].score))]
                /\ pc' = "enhance"
           ELSE /\ result' = result
                /\ pc' = "validate"
  /\ UNCHANGED <<config, api, df, idx, cnops_record, validated, exc, results,
                 summary, outcomes, client>>

\* Strategy 3 that keeps the candidates it rejects as alternatives
Strategy3_KeepRejected ==
  /\ pc = "strategy3"
  /\ LET matches == approximate_search(api, result.dci1, MaxEntries)
     IN /\ calls' = Append(calls,
                           SearchCall(result.dci1, MaxEntries, matches))
        /\ IF matches # <<>> /\ matches[1].score >= FuzzyThreshold
           THEN /\ result' = [result EXCEPT
                     !.rxcui = matches[1].rxcui,
                     !.rxnorm_name = matches[1].term,
                     !.mapping_method = "fuzzy_high",
                     !.confidence_score = Score06,
                     !.alternative_matches = Tail(matches),
                     !.validation_notes =
                        Append(@, <<"Fuzzy match score: ">>
                                  \o Digits(matches[1].score))]
                /\ pc' = "enhance"
           ELSE /\ result' = [result EXCEPT !.alternative_matches = matches]
                /\ pc' = "validate"
  /\ UNCHANGED <<config, api, df, idx, cnops_record, validated, exc, results,
                 summary, outcomes, client>>

\* the fuzzy strategy leaving max_entries at the default of approximate_search
Strategy3_DefaultEntries ==
  /\ pc = "strategy3"
  /\ LET matches == approximate_search(api, result.dci1, MaxEntries)
     IN /\ calls' = Append(calls,
                           SearchCall(result.dci1, 2 * MaxEntries, matches))
        /\ IF matches # <<>> /\ matches[1].score >= FuzzyThreshold
           THEN /\ result' = [result EXCEPT
                     !.rxcui = matches[1].rxcui,
                     !.rxnorm_name = matches[1].term,
                     !.mapping_method = "fuzzy_high",
                     !.confidence_score = Score06,
                     !.alternative_matches = Tail(matches),
                     !.validation_notes =
                        Append(@, <<"Fuzzy match score: ">>
                                  \o Digits(matches[1].score))]
                /\ pc' = "enhance"
           ELSE /\ result' = result
                /\ pc' = "validate"
  /\ UNCHANGED <<config, api, df, idx, cnops_record, validated, exc, results,
                 summary, outcomes, client>>

\* Strategy 3: fuzzy matching
Strategy3 ==
  /\ pc = "strategy3"
  /\ LET matches == approximate_search(api, result.dci1, MaxEntries)
     IN /\ calls' = Append(calls,
                           SearchCall(result.dci1, MaxEntries, matches))
        /\ IF matches # <<>> /\ matches[1].score >= FuzzyThreshold
           THEN /\ result' = [result EXCEPT
                     !.rxcui = matches[1].rxcui,
                     !.rxnorm_name = matches[1].term,
                     !.mapping_method = "fuzzy_high",
                     !.confidence_score = Score06,
                     !.alternative_matches = Tail(matches),
                     !.validation_notes =
                        Append(@, <<"Fuzzy match score: ">>
                                  \o Digits(matches[1].score))]
                /\ pc' = "enhance"
           ELSE /\ result' = result
                /\ pc' = "validate"
  /\ UNCHANGED <<config, api, df, idx, cnops_record, validated, exc, results,
                 summary, outcomes, client>>

\* enhancement run twice on the same result
Enhance_Twice ==
  /\ pc = "enhance"
  /\ LET e1 == _enhance_with_products(api, result, cnops_record)
         e2 == _enhance_with_products(api, e1.result, cnops_record)
         e == IF e1.exc # "" THEN e1
              ELSE [exc |-> e2.exc, result |-> e2.result,
                    calls |-> e1.calls \o e2.calls]
     IN /\ calls' = calls \o e.calls
        /\ result' = e.result
        /\ exc' = e.exc
        /\ pc' = IF e.exc # "" THEN "raised" ELSE "validate"
  /\ UNCHANGED <<config, api, df, idx, cnops_record, validated, results,
                 summary, outcomes, client>>

\* _enhance_with_products, called by the strategy that matched
Enhance ==
  /\ pc = "enhance"
  /\ LET e == _enhance_with_products(api, result, cnops_record)
     IN /\ calls' = calls \o e.calls
        /\ result' = e.result
        /\ exc' = e.exc
        /\ pc' = IF e.exc # "" THEN "raised" ELSE "validate"
  /\ UNCHANGED <<config, api, df, idx, cnops_record, validated, results,
                 summary, outcomes, client>>

\* validation run twice on the same result
Validate_Twice ==
  /\ pc = "validate"
  /\ result' = _validate_mapping(config, _validate_mapping(config, result))
  /\ validated' = validated + 2
  /\ pc' = "returned"
  /\ UNCHANGED <<config, api, df, idx, cnops_record, calls, exc, results,
                 summary, outcomes, client>>

\* _validate_mapping, then map_single_drug returns
Validate ==
  /\ pc = "validate"
  /\ result' = _validate_mapping(config, result)
  /\ validated' = validated + 1
  /\ pc' = "returned"
  /\ UNCHANGED <<config, api, df, idx, cnops_record, calls, exc, results,
                 summary, outcomes, client>>

Outcome(e, res) == [raised |-> e, result |-> res]

RECURSIVE Join(_, _)
Join(sep, notes) ==
  IF notes = <<>> THEN <<>>
  ELSE IF Len(notes) = 1 THEN notes[1]
  ELSE notes[1] \o sep \o Join(sep, Tail(notes))

Row(res) ==
  [CNOPS_CODE |-> res.cnops_code, ORIGINAL_NAME |-> res.original_name,
   DCI1 |-> res.dci1, RXCUI |-> res.rxcui, RXNORM_NAME |-> res.rxnorm_name,
   CONFIDENCE_SCORE |-> res.confidence_score,
   MAPPING_METHOD |-> res.mapping_method,
   VALIDATION_NOTES |-> Join(<<"; ">>, res.validation_notes),
   ALTERNATIVES_COUNT |-> Len(res.alternative_matches)]

ExcText(e) ==
  IF e = "TypeError"
  THEN "'<' not supported between instances of 'dict' and 'dict'"
  ELSE "'NoneType' object has no attribute 'upper'"

ErrorRow(row, e) ==
  [CNOPS_CODE |-> Get(row, "CODE", <<>>), ORIGINAL_NAME |-> Get(row, "NOM", <<>>),
   DCI1 |-> Get(row, "DCI1", <<>>), RXCUI |-> None, RXNORM_NAME |-> None,
   CONFIDENCE_SCORE |-> 0, MAPPING_METHOD |-> "error",
   VALIDATION_NOTES |-> <<"Error: ", ExcText(e)>>,
   ALTERNATIVES_COUNT |-> 0]

\* process_file appends the row of the returned result
AppendRow ==
  /\ pc = "returned"
  /\ results' = Append(results, Row(result))
  /\ idx' = idx + 1
  /\ outcomes' = Append(outcomes, Outcome(exc, result))
  /\ pc' = "loop"
  /\ UNCHANGED <<config, api, df, cnops_record, result, calls, validated, exc,
                 summary, client>>

\* an exception that ends the batch instead of producing an error row
AppendError_Abort ==
  /\ pc = "raised"
  /\ pc' = "failed"
  /\ UNCHANGED <<config, api, df, idx, cnops_record, result, calls, validated,
                 exc, results, summary, outcomes, client>>

\* process_file catches the exception and appends an error row
AppendError ==
  /\ pc = "raised"
  /\ results' = Append(results, ErrorRow(df[idx + 1], exc))
  /\ idx' = idx + 1
  /\ outcomes' = Append(outcomes, Outcome(exc, result))
  /\ pc' = "loop"
  /\ UNCHANGED <<config, api, df, cnops_record, result, calls, validated, exc,
                 summary, client>>

\* a summary whose medium tier has no upper limit
_print_summary_OpenMedium(cfg, rows) ==
  LET Rows(P(_)) == {i \in 1..Len(rows) : P(rows[i])}
      Mapped(r) == r.RXCUI # None
      High(r) == r.CONFIDENCE_SCORE >= cfg.high
      Med(r) == r.CONFIDENCE_SCORE >= cfg.medium
      Low(r) == r.CONFIDENCE_SCORE < cfg.medium
  IN [total |-> Len(rows), mapped |-> Cardinality(Rows(Mapped)),
      high_conf |-> Cardinality(Rows(High)),
      med_conf |-> Cardinality(Rows(Med)),
      low_conf |-> Cardinality(Rows(Low))]

\* the summary of an empty table looks up a column the frame does not have
_print_summary(cfg, rows) ==
  LET Rows(P(_)) == {i \in 1..Len(rows) : P(rows[i])}
      Mapped(r) == r.RXCUI # None
      High(r) == r.CONFIDENCE_SCORE >= cfg.high
      Med(r) == r.CONFIDENCE_SCORE >= cfg.medium
                /\ r.CONFIDENCE_SCORE < cfg.high
      Low(r) == r.CONFIDENCE_SCORE < cfg.medium
  IN [total |-> Len(rows), mapped |-> Cardinality(Rows(Mapped)),
      high_conf |-> Cardinality(Rows(High)),
      med_conf |-> Cardinality(Rows(Med)),
      low_conf |-> Cardinality(Rows(Low))]

Summarize ==
  /\ pc = "loop"
  /\ idx = Len(df)
  /\ IF results = <<>>
     THEN /\ exc' = "KeyError"
          /\ summary' = summary
          /\ pc' = "failed"
     ELSE /\ exc' = exc
          /\ summary' = _print_summary(config, results)
          /\ pc' = "done"
  /\ UNCHANGED <<config, api, df, idx, cnops_record, result, calls, validated,
                 results, outcomes, client>>

Next ==
  \/ Begin
  \/ Strategy1
  \/ Strategy2
  \/ Strategy3
  \/ Enhance
  \/ Validate
  \/ AppendRow
  \/ AppendError
  \/ Summarize

Spec == Init /\ [][Next]_vars

(***************************************************************************)
(* One terminology request, step by step: RxNormAPIClient._make_request    *)
(* called by search_by_name, approximate_search or get_related_concepts.   *)
(* retries is the configured number of attempts, network the outcome of    *)
(* each HTTP GET (TRUE: a 2xx answer with the service's JSON; FALSE: a     *)
(* RequestException), attempt the loop variable, events the sleeps and     *)
(* GETs made so far, response what _make_request returns and answer what   *)
(* the calling operation returns.                                          *)
(***************************************************************************)
Operations == {"search_by_name", "approximate_search", "get_related_concepts"}

Requests == [op : Operations, arg : {<<"P", "a">>, <<"a", "c">>}]

ClientServices ==
  {s \in Services : s.reachable /\ Len(s.candidate) <= 2}

Endpoint(op) ==
  IF op = "search_by_name" THEN "rxcui.json"
  ELSE IF op = "approximate_search" THEN "approximateTerm.json"
  ELSE "related.json"

Event(kind, n) == [kind |-> kind, attempt |-> n]

Backoff(n) == [kind |-> "backoff_sleep", attempt |-> n, seconds |-> 2 ^ n]

ClientInit ==
  /\ config \in {c \in Configs : c.name_similarity_threshold = 70}
  /\ api \in ClientServices
  /\ df = <<>>
  /\ idx = 0
  /\ pc = "client"
  /\ cnops_record = [CODE |-> <<>>]
  /\ result = MappingResult(<<>>, <<>>, <<>>)
  /\ calls = <<>>
  /\ validated = 0
  /\ exc = ""
  /\ results = <<>>
  /\ summary = NoSummary
  /\ outcomes = <<>>
  /\ retries \in 0..MaxRetries
  /\ network \in [1..(MaxRetries + 1) -> BOOLEAN]
  /\ request \in Requests
  /\ attempt = 0
  /\ cpc = "for"
  /\ events = <<>>
  /\ response = NoPayload
  /\ answer = <<>>

mapper == <<config, api, df, idx, pc, cnops_record, result, calls, validated,
            exc, results, summary, outcomes>>

\* for attempt in range(self.retries): the next attempt starts
ForAttempt ==
  /\ cpc = "for"
  /\ attempt < retries
  /\ cpc' = "try"
  /\ UNCHANGED <<mapper, retries, network, request, attempt, events, response,
                 answer>>

\* the loop body never ran: the return None after the loop
ForExhausted ==
  /\ cpc = "for"
  /\ attempt >= retries
  /\ response' = NoPayload
  /\ cpc' = "return"
  /\ UNCHANGED <<mapper, retries, network, request, attempt, events, answer>>

\* time.sleep(self.rate_limit)
RateLimitSleep ==
  /\ cpc = "try"
  /\ events' = Append(events, Event("rate_limit_sleep", attempt))
  /\ cpc' = "get"
  /\ UNCHANGED <<mapper, retries, network, request, attempt, response, answer>>

\* session.get, raise_for_status, return response.json()
SessionGet ==
  /\ cpc = "get"
  /\ events' = Append(events, Event("get", attempt))
  /\ IF network[attempt + 1]
     THEN /\ response' = _make_request(api, Endpoint(request.op), request.arg)
          /\ cpc' = "return"
     ELSE /\ response' = response
          /\ cpc' = "except"
  /\ UNCHANGED <<mapper, retries, network, request, attempt, answer>>

\* an except branch that gives up at the first failed attempt
Except_GiveUpAtOnce ==
  /\ cpc = "except"
  /\ response' = NoPayload
  /\ cpc' = "return"
  /\ UNCHANGED <<mapper, retries, network, request, answer, events, attempt>>

\* an except branch that backs off after the last failed attempt as well
Except_AlwaysBackoff ==
  /\ cpc = "except"
  /\ events' = Append(events, Backoff(attempt))
  /\ IF attempt = retries - 1
     THEN /\ response' = NoPayload
          /\ cpc' = "return"
          /\ attempt' = attempt
     ELSE /\ attempt' = attempt + 1
          /\ cpc' = "for"
          /\ response' = response
  /\ UNCHANGED <<mapper, retries, network, request, answer>>

\* except RequestException: give up after the last attempt, else back off
Except ==
  /\ cpc = "except"
  /\ IF attempt = retries - 1
     THEN /\ response' = NoPayload
          /\ cpc' = "return"
          /\ UNCHANGED <<events, attempt>>
     ELSE /\ events' = Append(events, Backoff(attempt))
          /\ attempt' = attempt + 1
          /\ cpc' = "for"
          /\ response' = response
  /\ UNCHANGED <<mapper, retries, network, request, answer>>

\* the calling operation turns the payload, or its absence, into its value
Answer ==
  /\ cpc = "return"
  /\ LET service == [api EXCEPT !.reachable = response.ok]
     IN answer' =
          IF request.op = "search_by_name"
          THEN search_by_name(service, request.arg)
          ELSE IF request.op = "approximate_search"
          THEN approximate_search(service, request.arg, MaxEntries)
          ELSE get_related_concepts(service, request.arg, "SCD+SBD")
  /\ cpc' = "done"
  /\ UNCHANGED <<mapper, retries, network, request, attempt, events, response>>

ClientNext ==
  \/ ForAttempt
  \/ ForExhausted
  \/ RateLimitSleep
  \/ SessionGet
  \/ Except
  \/ Answer

ClientSpec == ClientInit /\ [][ClientNext]_vars

(***************************************************************************)
(* Vocabulary of the properties.                                           *)
(***************************************************************************)
Resolving == pc \in {"strategy1", "strategy2", "strategy3", "enhance",
                     "validate", "returned", "raised"}

AfterStrategy1 == pc \in {"strategy2", "strategy3", "enhance", "validate",
                          "returned", "raised"}

AfterStrategy2 == pc \in {"strategy3", "enhance", "validate", "returned",
                          "raised"}

AfterStrategy3 == pc \in {"enhance", "validate", "returned", "raised"}

HasNote(res, note) ==
  \E i \in 1..Len(res.validation_notes) : res.validation_notes[i] = note

LastNote(res) == res.validation_notes[Len(res.validation_notes)]

TierNotes ==
  {<<"HIGH confidence mapping">>, <<"MEDIUM confidence mapping">>,
   <<"LOW confidence - review recommended">>,
   <<"VERY LOW confidence - manual review required">>}

TierNoteCount(res) ==
  Cardinality({i \in 1..Len(res.validation_notes) :
                 res.validation_notes[i] \in TierNotes})

CallsOf(op) == {i \in 1..Len(calls) : calls[i].op = op}

RawHit == Truthy(search_by_name(api, result.dci1))

HasTranslation == Upper(result.dci1) \in DOMAIN ingredient_translations

Translated == ingredient_translations[Upper(result.dci1)]

TranslatedHit == HasTranslation /\ Truthy(search_by_name(api, Translated))

Returned == approximate_search(api, result.dci1, MaxEntries)

FuzzyHit == Returned # <<>> /\ Returned[1].score >= FuzzyThreshold

(***************************************************************************)
(* C1: a record whose DCI1 field is empty or missing is returned at once   *)
(* with method "none", score 0.0, no rxcui, the note "No DCI1 ingredient   *)
(* specified", and without any call to the terminology interface.          *)
(***************************************************************************)
C1_EmptyIngredient ==
  (Resolving /\ ~Truthy(Get(cnops_record, "DCI1", <<>>))) =>
     /\ pc = "returned"
     /\ result.mapping_method = "none"
     /\ result.confidence_score = 0
     /\ result.rxcui = None
     /\ result.rxnorm_name = None
     /\ result.validation_notes = <<<<"No DCI1 ingredient specified">>>>
     /\ calls = <<>>

C1_Witness ==
  /\ pc = "returned"
  /\ "DCI1" \in DOMAIN cnops_record
  /\ cnops_record.DCI1 = <<>>
  /\ api.reachable

(***************************************************************************)
(* C2: the strategies run in strict priority order and stop at the first   *)
(* success: a search_by_name or approximate_search call is made only when  *)
(* every earlier call for the record was a search_by_name that returned    *)
(* absent; the first lookup is on the raw ingredient, the second on its    *)
(* translation, and at most one approximate_search is made.                *)
(***************************************************************************)
C2_StrictPriority ==
  /\ \A j \in 1..Len(calls) :
        calls[j].op \in {"search_by_name", "approximate_search"} =>
           \A i \in 1..(j - 1) :
              calls[i].op = "search_by_name" /\ ~Truthy(calls[i].ret)
  /\ \A j \in CallsOf("search_by_name") :
        /\ j <= 2
        /\ j = 1 => calls[j].arg = result.dci1
        /\ j = 2 => HasTranslation /\ calls[j].arg = Translated
  /\ Cardinality(CallsOf("approximate_search")) <= 1
  /\ (AfterStrategy1 /\ Truthy(result.dci1)) => 1 \in CallsOf("search_by_name")

C2_Witness ==
  /\ pc = "returned"
  /\ Len(calls) = 3
  /\ calls[2].op = "search_by_name"
  /\ Truthy(calls[2].ret)
  /\ calls[3].op = "get_related_concepts"

(***************************************************************************)
(* C3: when search_by_name on the raw ingredient returns an identifier,    *)
(* the method is "direct_exact"; before enhancement and validation the     *)
(* score is 0.9, rxcui the returned identifier and rxnorm_name the raw     *)
(* ingredient name.                                                        *)
(***************************************************************************)
C3_DirectExact ==
  (AfterStrategy1 /\ Truthy(result.dci1) /\ RawHit) =>
     /\ result.mapping_method = "direct_exact"
     /\ pc \notin {"strategy2", "strategy3"}
     /\ pc = "enhance" =>
          /\ result.confidence_score = Score09
          /\ result.rxcui = search_by_name(api, result.dci1)
          /\ result.rxnorm_name = result.dci1

C3_Witness ==
  /\ pc = "enhance"
  /\ result.mapping_method = "direct_exact"
  /\ result.confidence_score = Score09

(***************************************************************************)
(* C4: when the raw lookup misses, the upper-cased ingredient is a key of  *)
(* the translation table and the lookup of the translated term returns an  *)
(* identifier, the method is "translated_exact"; before enhancement and    *)
(* validation the score is 0.8 and rxnorm_name the translated term; the    *)
(* note "Used translation: <raw> -> <translated>" is recorded.             *)
(***************************************************************************)
C4_TranslatedExact ==
  (AfterStrategy2 /\ Truthy(result.dci1) /\ ~RawHit /\ TranslatedHit) =>
     /\ result.mapping_method = "translated_exact"
     /\ pc # "strategy3"
     /\ HasNote(result, <<"Used translation: ">> \o result.dci1
                        \o <<" -> ">> \o Translated)
     /\ pc = "enhance" =>
          /\ result.confidence_score = Score08
          /\ result.rxcui = search_by_name(api, Translated)
          /\ result.rxnorm_name = Translated

C4_Witness ==
  /\ pc = "enhance"
  /\ result.mapping_method = "translated_exact"
  /\ result.dci1 # Upper(result.dci1)

(***************************************************************************)
(* C5: when both exact strategies miss and approximate_search returns a    *)
(* list whose first candidate has score >= 80, that candidate is accepted: *)
(* method "fuzzy_high", base score 0.6 before enhancement and validation,  *)
(* and the note "Fuzzy match score: <score>".                              *)
(***************************************************************************)
C5_FuzzyHigh ==
  (AfterStrategy3 /\ Truthy(result.dci1) /\ ~RawHit /\ ~TranslatedHit
   /\ FuzzyHit) =>
     /\ result.mapping_method = "fuzzy_high"
     /\ HasNote(result, <<"Fuzzy match score: ">>
                        \o Digits(Returned[1].score))
     /\ pc = "enhance" =>
          /\ result.confidence_score = Score06
          /\ result.rxcui = Returned[1].rxcui
          /\ result.rxnorm_name = Returned[1].term

C5_Witness ==
  /\ pc = "enhance"
  /\ result.mapping_method = "fuzzy_high"
  /\ Returned[1].score = FuzzyThreshold

(***************************************************************************)
(* C6: when the fuzzy strategy accepts a match, the number of stored       *)
(* alternatives is min(number of candidates returned, 5) - 1.              *)
(***************************************************************************)
C6_AlternativesCount ==
  (AfterStrategy3 /\ result.mapping_method = "fuzzy_high") =>
     Len(result.alternative_matches) = Min({Len(Returned), MaxEntries}) - 1

(***************************************************************************)
(* C7: when both exact strategies miss and approximate_search returns an   *)
(* empty list or a first candidate with score < 80, no match is accepted:  *)
(* no rxcui, method "none", no alternatives, get_related_concepts is never *)
(* called, and the returned score is 0.0.                                  *)
(***************************************************************************)
C7_BelowThreshold ==
  (AfterStrategy3 /\ Truthy(result.dci1) /\ ~RawHit /\ ~TranslatedHit
   /\ ~FuzzyHit) =>
     /\ pc \in {"validate", "returned"}
     /\ result.rxcui = None
     /\ result.rxnorm_name = None
     /\ result.mapping_method = "none"
     /\ result.alternative_matches = <<>>
     /\ CallsOf("get_related_concepts") = {}
     /\ CallsOf("approximate_search") # {}
     /\ pc = "returned" =>
          /\ result.confidence_score = 0
          /\ LastNote(result) = <<"No RxNorm mapping found">>

C7_Witness ==
  /\ pc = "returned"
  /\ result.mapping_method = "none"
  /\ Truthy(result.dci1)
  /\ Returned # <<>>
  /\ Returned[1].score < FuzzyThreshold

(***************************************************************************)
(* C8: in every returned result and in every emitted row, rxcui is present *)
(* if and only if the method is neither "none" nor "error".                *)
(***************************************************************************)
C8_IdIffMethod ==
  /\ pc = "returned" =>
        (result.rxcui # None <=> result.mapping_method \notin {"none", "error"})
  /\ \A i \in 1..Len(results) :
        results[i].RXCUI # None
           <=> results[i].MAPPING_METHOD \notin {"none", "error"}

(***************************************************************************)
(* C9: at exit of map_single_drug the score is 0.0 exactly when rxcui is   *)
(* absent, and strictly positive when an identifier is present.            *)
(***************************************************************************)
C9_ZeroIffAbsent ==
  pc = "returned" =>
     /\ result.confidence_score >= 0
     /\ ~Truthy(result.rxcui) <=> result.confidence_score = 0

C9_Witness ==
  /\ pc = "returned"
  /\ result.mapping_method = "fuzzy_high"
  /\ result.rxcui = None
  /\ result.confidence_score = 0

(***************************************************************************)
(* C10 as stated: every returned result has been validated exactly once,   *)
(* so its notes end with the no-mapping note or with the one tier note.    *)
(***************************************************************************)
C10_AlwaysValidated ==
  pc = "returned" =>
     /\ validated = 1
     /\ \/ LastNote(result) = <<"No RxNorm mapping found">>
              /\ TierNoteCount(result) = 0
        \/ LastNote(result) \in TierNotes /\ TierNoteCount(result) = 1

(***************************************************************************)
(* C10 amended: every result returned for a record with a non-empty        *)
(* ingredient has been validated exactly once, after enhancement, so its   *)
(* notes end with the no-mapping note or with the one tier note; the       *)
(* empty-ingredient return is not validated and carries neither note.      *)
(***************************************************************************)
C10_ValidatedUnlessEmpty ==
  /\ pc \in {"strategy1", "strategy2", "strategy3", "enhance", "validate",
             "raised"} => validated = 0
  /\ (pc = "returned" /\ Truthy(result.dci1)) =>
        /\ validated = 1
        /\ \/ LastNote(result) = <<"No RxNorm mapping found">>
                 /\ TierNoteCount(result) = 0
                 /\ ~Truthy(result.rxcui)
           \/ LastNote(result) \in TierNotes
                 /\ TierNoteCount(result) = 1
                 /\ Truthy(result.rxcui)
  /\ (pc = "returned" /\ ~Truthy(result.dci1)) =>
        /\ validated = 0
        /\ TierNoteCount(result) = 0
        /\ ~HasNote(result, <<"No RxNorm mapping found">>)

C10_Witness ==
  /\ pc = "returned"
  /\ validated = 1
  /\ HasNote(result, <<"Enhanced with specific product">>)
  /\ LastNote(result) \in TierNotes

(***************************************************************************)
(* C11: an exception raised while resolving a record does not abort the    *)
(* batch: there is one output row per processed record, in input order;    *)
(* the row of a record whose resolution raised has method "error", score   *)
(* 0.0, no RXCUI and the notes "Error: <description>"; the loop goes on    *)
(* to the next record and ends only when every record has its row.         *)
(***************************************************************************)
C11_RowsInv ==
  /\ Len(results) = idx
  /\ Len(outcomes) = idx
  /\ idx <= Len(df)
  /\ pc \in {"done", "failed"} => idx = Len(df)
  /\ \A i \in 1..Len(results) :
        /\ results[i].CNOPS_CODE = Get(df[i], "CODE", <<>>)
        /\ results[i].ORIGINAL_NAME = Get(df[i], "NOM", <<>>)
        /\ results[i].DCI1 = Get(df[i], "DCI1", <<>>)
        /\ outcomes[i].raised # "" <=> results[i].MAPPING_METHOD = "error"
        /\ outcomes[i].raised # "" =>
             /\ results[i].CONFIDENCE_SCORE = 0
             /\ results[i].RXCUI = None
             /\ results[i].RXNORM_NAME = None
             /\ results[i].VALIDATION_NOTES =
                   <<"Error: ", ExcText(outcomes[i].raised)>>

C11_AfterRaise ==
  pc = "raised" =>
     /\ pc' = "loop"
     /\ idx' = idx + 1
     /\ Len(results') = Len(results) + 1
     /\ results'[idx + 1].MAPPING_METHOD = "error"

C11_BatchSurvives == []C11_RowsInv /\ [][C11_AfterRaise]_vars

C11_Witness ==
  /\ pc = "done"
  /\ Len(results) = 2
  /\ results[1].MAPPING_METHOD = "error"
  /\ results[2].MAPPING_METHOD = "direct_exact"
  /\ results[2].RXCUI # None

(***************************************************************************)
(* C12: with a terminology interface that never raises and returns only    *)
(* well-formed candidates and products (identifier, name and term type     *)
(* present), map_single_drug never raises.                                 *)
(***************************************************************************)
WellFormedService ==
  /\ \A i \in 1..Len(api.candidate) :
        {"rxcui", "term", "score"} \subseteq DOMAIN api.candidate[i]
  /\ \A g \in 1..Len(api.conceptGroup) :
        LET props == Get(api.conceptGroup[g], "conceptProperties", <<>>)
        IN \A c \in 1..Len(props) :
              {"rxcui", "name", "tty"} \subseteq DOMAIN props[c]

C12_NeverRaises == WellFormedService => pc # "raised"

(***************************************************************************)
(* C13: two map_single_drug calls on the same record, with the same        *)
(* service responses, tables and configuration, give identical outcomes:   *)
(* the same MappingResult field by field, or the same exception.           *)
(***************************************************************************)
C13_Idempotent ==
  \A i, j \in 1..Len(outcomes) : df[i] = df[j] => outcomes[i] = outcomes[j]

C13_Witness ==
  /\ Len(outcomes) = 2
  /\ df[1] = df[2]
  /\ outcomes[2].raised = ""
  /\ outcomes[2].result.mapping_method = "fuzzy_high"
  /\ outcomes[2].result.alternative_matches # <<>>
  /\ HasNote(outcomes[2].result, <<"Enhanced with specific product">>)

(***************************************************************************)
(* Vocabulary of the validation properties: the base score of a strategy,  *)
(* the matched name as validation reads it, the measured similarity and    *)
(* the two conditions validation tests on a returned result.               *)
(***************************************************************************)
BaseScore(method) ==
  IF method = "direct_exact" THEN Score09
  ELSE IF method = "translated_exact" THEN Score08
  ELSE Score06

FinalName == IF Truthy(result.rxnorm_name) THEN result.rxnorm_name ELSE <<>>

Similarity == Ratio(Upper(result.dci1), Upper(FinalName))

SimilarityNote == <<"Low name similarity: ">> \o Digits(Similarity) \o <<"%">>

Matched == pc = "returned" /\ Truthy(result.rxcui)

LowSimilarity == Similarity < config.name_similarity_threshold

Enhanced == HasNote(result, <<"Enhanced with specific product">>)

ComboMismatch == HasSlash(result.dci1) /\ ~HasSlash(FinalName)

(***************************************************************************)
(* C14 as stated: for a matched result whose similarity is below the       *)
(* threshold, the final score is the strategy's base score times           *)
(* form_mismatch_penalty and the similarity note is present.               *)
(***************************************************************************)
C14_BaseTimesPenalty ==
  (Matched /\ LowSimilarity) =>
     /\ result.confidence_score =
           Penalize(BaseScore(result.mapping_method),
                    config.form_mismatch_penalty)
     /\ HasNote(result, SimilarityNote)

(***************************************************************************)
(* C14 amended: for a matched result with a non-empty matched name whose   *)
(* similarity is below the threshold, the similarity note is present and   *)
(* the final score is the score validation received (the strategy's base   *)
(* score, plus 0.1 when a product was selected) times                      *)
(* form_mismatch_penalty, times combination_drug_penalty when the          *)
(* combination check fires as well; without low similarity there is no     *)
(* similarity note.                                                        *)
(***************************************************************************)
C14_ReceivedTimesPenalty ==
  Matched =>
     LET received == BaseScore(result.mapping_method)
                     + (IF Enhanced THEN Bonus01 ELSE 0)
         penalized == Penalize(received, config.form_mismatch_penalty)
     IN IF Truthy(result.rxnorm_name) /\ LowSimilarity
        THEN /\ HasNote(result, SimilarityNote)
             /\ result.confidence_score =
                   IF ComboMismatch
                   THEN Penalize(penalized, config.combination_drug_penalty)
                   ELSE penalized
        ELSE \A i \in 1..Len(result.validation_notes) :
                result.validation_notes[i][1] # "Low name similarity: "

C14_Witness ==
  /\ Matched
  /\ LowSimilarity
  /\ Enhanced
  /\ ~ComboMismatch
  /\ result.mapping_method = "direct_exact"
  /\ result.confidence_score =
        Penalize(Score09 + Bonus01, config.form_mismatch_penalty)
  /\ config.form_mismatch_penalty # config.combination_drug_penalty

(***************************************************************************)
(* C15: the summary is a read-only aggregation: computing it changes no    *)
(* result row, every row falls in exactly one of the tiers high / medium / *)
(* low, each count is the number of rows of its tier, and the three        *)
(* counts sum to the total, which is the number of records.                *)
(***************************************************************************)
TierOf(row) ==
  IF row.CONFIDENCE_SCORE >= config.high THEN "high"
  ELSE IF row.CONFIDENCE_SCORE >= config.medium THEN "medium"
  ELSE "low"

RowsOfTier(tier) == {i \in 1..Len(results) : TierOf(results[i]) = tier}

C15_Partition ==
  pc = "done" =>
     /\ summary.total = Len(results)
     /\ summary.total = Len(df)
     /\ summary.high_conf = Cardinality(RowsOfTier("high"))
     /\ summary.med_conf = Cardinality(RowsOfTier("medium"))
     /\ summary.low_conf = Cardinality(RowsOfTier("low"))
     /\ summary.high_conf + summary.med_conf + summary.low_conf
           = summary.total

C15_ReadOnly ==
  (pc = "loop" /\ idx = Len(df)) => (results' = results /\ df' = df)

C15_SummaryPartition == []C15_Partition /\ [][C15_ReadOnly]_vars

C15_Witness ==
  /\ pc = "done"
  /\ summary.total = 2
  /\ summary.high_conf = 1
  /\ summary.med_conf = 1

(***************************************************************************)
(* Vocabulary of the enhancement properties: the products the service      *)
(* returns for the current match, the strength and form they are scored    *)
(* against, and their scores.                                              *)
(***************************************************************************)
Products == get_related_concepts(api, result.rxcui, "SCD+SBD")

TargetStrength ==
  Get(cnops_record, "DOSAGE1", <<>>) \o <<" ">>
     \o Get(cnops_record, "UNITE_DOSAGE1", <<>>)

TargetForm == Get(cnops_record, "FORME", <<>>)

ScoreOf(i) == ProductScore(Products[i], TargetStrength, TargetForm)

TopScore == Max({ScoreOf(i) : i \in 1..Len(Products)})

Selecting ==
  /\ pc = "enhance"
  /\ Truthy(result.rxcui)
  /\ Products # <<>>
  /\ WellFormedService

(***************************************************************************)
(* C16: product selection picks the highest-scoring related product, and   *)
(* among several products with the highest score the first of the list     *)
(* returned by get_related_concepts.                                       *)
(***************************************************************************)
C16_FirstOfBest ==
  (Selecting /\ TopScore > 0) =>
     LET best == Min({i \in 1..Len(Products) : ScoreOf(i) = TopScore})
     IN /\ pc' = "validate"
        /\ result'.rxcui = Products[best].rxcui
        /\ result'.rxnorm_name = Products[best].name

C16_HighestFirstWins == [][C16_FirstOfBest]_vars

(***************************************************************************)
(* C17: when no related product scores above zero the first product with   *)
(* tty SCD is selected, or the first product when none is an SCD, so some  *)
(* product is selected for every non-empty list.                           *)
(***************************************************************************)
C17_Fallback ==
  (Selecting /\ TopScore = 0) =>
     LET scd == {i \in 1..Len(Products) : Products[i].tty = <<"S", "C", "D">>}
         pick == IF scd # {} THEN Min(scd) ELSE 1
     IN /\ pc' = "validate"
        /\ result'.rxcui = Products[pick].rxcui
        /\ result'.rxnorm_name = Products[pick].name

C17_FallbackSelects == [][C17_Fallback]_vars

(***************************************************************************)
(* C18: when enhancement selects a product, rxcui and rxnorm_name become   *)
(* that product's identifier and name, the score grows by exactly 0.1,     *)
(* the note "Enhanced with specific product" is appended, and the method,  *)
(* the alternatives and the source fields stay as they were.               *)
(***************************************************************************)
C18_Selected ==
  (pc = "enhance" /\ Truthy(result.rxcui) /\ Products # <<>>
   /\ pc' = "validate") =>
     /\ \E i \in 1..Len(Products) :
           /\ result'.rxcui = Products[i].rxcui
           /\ result'.rxnorm_name = Products[i].name
     /\ result'.confidence_score = result.confidence_score + Bonus01
     /\ result'.validation_notes =
           Append(result.validation_notes, <<"Enhanced with specific product">>)
     /\ result'.mapping_method = result.mapping_method
     /\ result'.alternative_matches = result.alternative_matches
     /\ result'.cnops_code = result.cnops_code
     /\ result'.original_name = result.original_name
     /\ result'.dci1 = result.dci1

C18_EnhanceFrame == [][C18_Selected]_vars

C18_Witness ==
  /\ pc = "validate"
  /\ Enhanced
  /\ result.mapping_method = "fuzzy_high"
  /\ result.alternative_matches # <<>>
  /\ result.confidence_score = Score06 + Bonus01
  /\ result.rxnorm_name # Returned[1].term

(***************************************************************************)
(* C19: get_related_concepts is never called for a result without rxcui,   *)
(* and is called once, with the matched identifier, for a result with      *)
(* one; when it returns an empty list the result goes to validation        *)
(* exactly as the matching strategy left it.                               *)
(***************************************************************************)
C19_EnhanceStep ==
  pc = "enhance" =>
     /\ ~Truthy(result.rxcui) =>
           (calls' = calls /\ result' = result /\ pc' = "validate")
     /\ Truthy(result.rxcui) =>
           calls' = Append(calls, Call("get_related_concepts", result.rxcui,
                                       Products))
     /\ (Truthy(result.rxcui) /\ Products = <<>>) =>
           (result' = result /\ pc' = "validate")

C19_NoCallWithoutId ==
  \A i \in CallsOf("get_related_concepts") :
     /\ Truthy(calls[i].arg)
     /\ i = Len(calls)
     /\ (Resolving /\ calls[i].ret = <<>>) =>
          /\ ~Enhanced
          /\ pc \in {"validate", "returned"}
          /\ pc = "validate" =>
               result.confidence_score = BaseScore(result.mapping_method)

C19_NoOpEnhancement == []C19_NoCallWithoutId /\ [][C19_EnhanceStep]_vars

C19_Witness ==
  /\ pc = "validate"
  /\ CallsOf("get_related_concepts") = {Len(calls)}
  /\ calls[Len(calls)].ret = <<>>
  /\ result.mapping_method = "translated_exact"
  /\ result.confidence_score = Score08
  /\ result.rxnorm_name = Translated

(***************************************************************************)
(* C20: validation of a matched result applies the combination penalty     *)
(* exactly when the raw ingredient contains "/" and the final matched      *)
(* name does not: then the score validation received, already multiplied   *)
(* by form_mismatch_penalty if the similarity note was added, is           *)
(* multiplied by combination_drug_penalty and the mismatch note is         *)
(* appended once, after the similarity note; otherwise the note is absent  *)
(* and the combination factor is not applied.                              *)
(***************************************************************************)
ComboNote == <<"Possible combination drug mismatch">>

NotesAt(note) ==
  {i \in 1..Len(result.validation_notes) : result.validation_notes[i] = note}

C20_ComboPenalty ==
  Matched =>
     LET received == BaseScore(result.mapping_method)
                     + (IF Enhanced THEN Bonus01 ELSE 0)
         before == IF NotesAt(SimilarityNote) # {}
                   THEN Penalize(received, config.form_mismatch_penalty)
                   ELSE received
     IN /\ NotesAt(ComboNote) # {} <=> ComboMismatch
        /\ Cardinality(NotesAt(ComboNote)) <= 1
        /\ ComboMismatch =>
             /\ result.confidence_score =
                   Penalize(before, config.combination_drug_penalty)
             /\ \A i \in NotesAt(SimilarityNote) :
                   \A j \in NotesAt(ComboNote) : i < j
             /\ \A j \in NotesAt(ComboNote) :
                   j = Len(result.validation_notes) - 1
        /\ ~ComboMismatch => result.confidence_score = before

C20_Witness ==
  /\ Matched
  /\ ComboMismatch
  /\ NotesAt(SimilarityNote) # {}
  /\ NotesAt(ComboNote) # {}
  /\ config.form_mismatch_penalty # config.combination_drug_penalty
  /\ result.confidence_score =
        Penalize(Penalize(Score09 + Bonus01, config.form_mismatch_penalty),
                 config.combination_drug_penalty)

(***************************************************************************)
(* C21: a matched result ends with exactly one tier note, chosen on its    *)
(* final score: HIGH when the score reaches the high threshold, else       *)
(* MEDIUM when it reaches medium, else LOW when it reaches low, else VERY  *)
(* LOW; a result without a match carries no tier note.                     *)
(***************************************************************************)
C21_TierOfFinalScore ==
  pc = "returned" =>
     IF Truthy(result.rxcui)
     THEN /\ TierNoteCount(result) = 1
          /\ LastNote(result) =
                IF result.confidence_score >= config.high
                THEN <<"HIGH confidence mapping">>
                ELSE IF result.confidence_score >= config.medium
                THEN <<"MEDIUM confidence mapping">>
                ELSE IF result.confidence_score >= config.low
                THEN <<"LOW confidence - review recommended">>
                ELSE <<"VERY LOW confidence - manual review required">>
     ELSE TierNoteCount(result) = 0

C21_Witness ==
  /\ Matched
  /\ NotesAt(SimilarityNote) # {}
  /\ BaseScore(result.mapping_method) >= config.high
  /\ result.confidence_score < config.high
  /\ LastNote(result) = <<"MEDIUM confidence mapping">>

(***************************************************************************)
(* Vocabulary of the request properties.                                   *)
(***************************************************************************)
EventsOf(kind) == {i \in 1..Len(events) : events[i].kind = kind}

Finished == cpc \in {"return", "done"}

Successes == {k \in 1..retries : network[k]}

(***************************************************************************)
(* C22: a request makes at most `retries` GET attempts; it stops at the    *)
(* first attempt that succeeds and returns that payload; it returns no     *)
(* payload, without raising, exactly when all `retries` attempts failed;   *)
(* then search_by_name returns None and approximate_search and             *)
(* get_related_concepts return an empty list.                              *)
(***************************************************************************)
C22_BoundedRetries ==
  /\ Cardinality(EventsOf("get")) <= retries
  /\ cpc \in {"idle", "for", "try", "get", "except", "return", "done"}
  /\ Finished =>
        /\ response.ok <=> Successes # {}
        /\ response.ok =>
              /\ Cardinality(EventsOf("get")) = Min(Successes)
              /\ response = Payload(response.json)
              /\ response =
                    _make_request(api, Endpoint(request.op), request.arg)
        /\ ~response.ok => Cardinality(EventsOf("get")) = retries
  /\ (cpc = "done" /\ ~response.ok) =>
        answer = IF request.op = "search_by_name" THEN None ELSE <<>>
  /\ (cpc = "done" /\ response.ok /\ request.op = "search_by_name") =>
        answer = IF request.arg \in api.known
                 THEN RxnormIds[request.arg] ELSE None

C22_Witness ==
  /\ cpc = "done"
  /\ retries >= 2
  /\ Cardinality(EventsOf("get")) = retries
  /\ ~response.ok
  /\ request.op = "search_by_name"
  /\ request.arg \in api.known
  /\ answer = None

(***************************************************************************)
(* C23: within one request every GET is immediately preceded by one        *)
(* rate-limit sleep; attempt k + 1 is additionally preceded by a backoff   *)
(* sleep of 2^k seconds that follows the failed attempt k (k from 0); no   *)
(* backoff sleep follows the last failed attempt or a successful one, so   *)
(* a finished request ends with its last GET.                              *)
(***************************************************************************)
C23_SleepsBeforeAttempts ==
  /\ \A i \in EventsOf("get") :
        /\ i > 1
        /\ events[i - 1].kind = "rate_limit_sleep"
        /\ events[i - 1].attempt = events[i].attempt
        /\ events[i].attempt > 0 =>
              /\ i > 2
              /\ events[i - 2].kind = "backoff_sleep"
              /\ events[i - 2].attempt = events[i].attempt - 1
              /\ events[i - 2].seconds = 2 ^ (events[i].attempt - 1)
  /\ \A i \in EventsOf("backoff_sleep") :
        /\ i > 1
        /\ events[i - 1].kind = "get"
        /\ events[i - 1].attempt = events[i].attempt
        /\ ~network[events[i].attempt + 1]
        /\ events[i].attempt < retries - 1
        /\ events[i].seconds = 2 ^ events[i].attempt
  /\ \A i \in EventsOf("rate_limit_sleep") :
        i = 1 \/ events[i - 1].kind = "backoff_sleep"
  /\ (Finished /\ events # <<>>) => events[Len(events)].kind = "get"
  /\ (Finished /\ retries > 0) =>
        Cardinality(EventsOf("backoff_sleep"))
           = Cardinality(EventsOf("get")) - 1

C23_Witness ==
  /\ cpc = "done"
  /\ Len(events) = 8
  /\ events[3].kind = "backoff_sleep" /\ events[3].seconds = 1
  /\ events[6].kind = "backoff_sleep" /\ events[6].seconds = 2
  /\ events[8].kind = "get"
  /\ response.ok

(***************************************************************************)
(* C24: for one record at most four terminology calls are made: at most    *)
(* two search_by_name calls, the second only after the first returned      *)
(* absent and for an ingredient of the translation table; at most one      *)
(* approximate_search call, with max_entries 5; at most one                *)
(* get_related_concepts call, which is the last call and is made for the   *)
(* identifier the call just before it produced.                            *)
(***************************************************************************)
C24_AtMostFourCalls ==
  /\ Len(calls) <= 4
  /\ Cardinality(CallsOf("search_by_name")) <= 2
  /\ Cardinality(CallsOf("search_by_name")) = 2 =>
        /\ calls[1].op = "search_by_name"
        /\ calls[2].op = "search_by_name"
        /\ ~Truthy(calls[1].ret)
        /\ Upper(calls[1].arg) \in DOMAIN ingredient_translations
  /\ Cardinality(CallsOf("approximate_search")) <= 1
  /\ \A i \in CallsOf("approximate_search") : calls[i].max_entries = 5
  /\ Cardinality(CallsOf("get_related_concepts")) <= 1
  /\ \A i \in CallsOf("get_related_concepts") :
        /\ i = Len(calls)
        /\ i > 1
        /\ Truthy(calls[i].arg)
        /\ IF calls[i - 1].op = "search_by_name"
           THEN calls[i - 1].ret = calls[i].arg
           ELSE /\ calls[i - 1].op = "approximate_search"
                /\ calls[i - 1].ret # <<>>
                /\ calls[i - 1].ret[1].rxcui = calls[i].arg

C24_Witness ==
  /\ pc = "returned"
  /\ Len(calls) = 4
  /\ calls[2].op = "search_by_name"
  /\ calls[3].op = "approximate_search"
  /\ calls[4].op = "get_related_concepts"

(***************************************************************************)
(* C25: the score of a result never leaves [0.0, 1.0], while it is being   *)
(* resolved and when it is returned: the 0.1 bonus is added at most once,  *)
(* to a base of at most 0.9, and the penalty factors only lower it.        *)
(***************************************************************************)
C25_ScoreInUnitInterval ==
  /\ result.confidence_score >= 0
  /\ result.confidence_score <= Scale
  /\ Cardinality(NotesAt(<<"Enhanced with specific product">>)) <= 1
  /\ Enhanced => result.mapping_method \in
                    {"direct_exact", "translated_exact", "fuzzy_high"}
  /\ \A i \in 1..Len(results) :
        results[i].CONFIDENCE_SCORE >= 0 /\ results[i].CONFIDENCE_SCORE <= Scale

C25_Witness ==
  /\ pc = "returned"
  /\ Enhanced
  /\ result.mapping_method = "direct_exact"
  /\ result.confidence_score = Penalize(Scale, config.form_mismatch_penalty)
  /\ LastNote(result) = <<"HIGH confidence mapping">>

(***************************************************************************)
(* C26: a related product earns the 30 dose-form points only when the      *)
(* record's translated dose form is non-empty and occurs in the product    *)
(* name; for a record whose dosage, unit and dose form are all empty       *)
(* every product scores zero.                                              *)
(***************************************************************************)
TranslatedForm == Get(dose_form_translations, TargetForm, TargetForm)

C26_FormPointsNeedForm ==
  Selecting =>
     \A i \in 1..Len(Products) :
        /\ ScoreOf(i) \in {FormPoints, StrengthPoints + FormPoints} =>
              /\ TranslatedForm # <<>>
              /\ Contains(Upper(TranslatedForm), Upper(Products[i].name))
        /\ (Strip(TargetStrength) = <<>> /\ TargetForm = <<>>) =>
              ScoreOf(i) = 0

(***************************************************************************)
(* C27: process_file completes normally for a table with zero records:     *)
(* the result table is empty and the summary is printed without an         *)
(* exception.                                                              *)
(***************************************************************************)
C27_EmptyTableCompletes ==
  (df = <<>> /\ pc \in {"done", "failed"}) =>
     /\ pc = "done"
     /\ exc = ""
     /\ results = <<>>
     /\ summary.total = 0

====
